---- MODULE Spec2Model ----
(***************************************************************************)
(* Model of SIFT_app.py: the My_App window with its two push buttons       *)
(* (browse_button, toggle_cam_button), its two labels (template_label,     *)
(* live_image_label), the QTimer that drives SLOT_query_camera and the     *)
(* per-frame pipeline (camera read, SIFT, FLANN knnMatch, ratio filter,    *)
(* homography or match visualisation).                                     *)
(*                                                                         *)
(* The OpenCV and Qt calls are opaque primitives: each is modelled by the  *)
(* outcomes it can hand back to the Python code (a frame or None, a list   *)
(* of match pairs or an exception, a matrix or None).  Every slot runs on  *)
(* the single GUI thread, so a slot is one atomic action; the one          *)
(* exception is SLOT_browse_button, whose dlg.exec_() spins a nested event *)
(* loop in which timer events are still delivered.                         *)
(***************************************************************************)
EXTENDS Integers, Sequences, FiniteSets, TLC

\* ------------------------------------------------------------------ bounds

\* Longest list of (best, secondBest) pairs knnMatch hands back in the model.
MaxMatches == 5

\* ------------------------------------------------------- program constants

\* 0.65 of line 101, as the fraction RatioNum / RatioDen.
RatioNum == 65
RatioDen == 100

\* The 4 of line 106.
MinMatches == 4

\* The two texts SLOT_toggle_camera writes on the button.
EnableText == "&Enable camera"
DisableText == "&Disable camera"

\* The prefix of the line SLOT_browse_button prints.
LoadedPrefix == "Loaded template image file: "

\* ------------------------------------------------------------ environment

\* The value of an attribute that was never assigned (self.template_path is
\* not set by __init__).
NoAttr == "<no attribute>"

\* What a label or button shows before the program sets it: whatever
\* SIFT_app.ui defines.
Layout == "<layout>"

\* Texts SIFT_app.ui may give toggle_cam_button (the file is not part of the
\* sources).
LayoutTexts == {EnableText, DisableText, "Toggle camera"}

\* Files the dialog can return (ExistingFile mode accepts any file).
Files == {"box.png", "notes.txt"}

\* cv2.imread returns an image for an image file and None otherwise.
Decodable(path) == path = "box.png"

\* (best distance, second-best distance) of one knnMatch pair, best <=
\* second best: a pair the ratio test keeps, a pair exactly on the
\* threshold, a pair above it, and two identical descriptors.
DistPairs == {<<12, 20>>, <<13, 20>>, <<14, 20>>, <<0, 0>>}

\* The pairs a camera frame yields: one kept, one on the threshold.
FramePairs == {<<12, 20>>, <<13, 20>>}

\* A DMatch: the descriptor it belongs to (queryIdx) and its distance.
DMatch(q, d) == [queryIdx |-> q, distance |-> d]

\* knnMatch(desc_img_templ, desc_gframe, k=2): one (m, n) pair for every
\* template descriptor, in descriptor order, with distances from pairs.
MatchLists(pairs) ==
    UNION { { [i \in 1..len |-> <<DMatch(i, c[i][1]), DMatch(i, c[i][2])>>] :
                c \in [1..len -> pairs] } : len \in 0..MaxMatches }

\* ------------------------------------------------------------------ state

VARIABLES
    is_cam_enabled,      \* self._is_cam_enabled
    is_template_loaded,  \* self._is_template_loaded
    template_path,       \* self.template_path, NoAttr until first assigned
    timerActive,         \* self._timer.isActive()
    toggle_text,         \* text of toggle_cam_button
    template_label,      \* what template_label shows: Layout or QPixmap(path)
    live_image_label,    \* what live_image_label shows
    dialogOpen,          \* SLOT_browse_button is inside dlg.exec_()
    alive,               \* the process is running
    lastToggle,          \* history: branch taken by the latest toggle
    trail,               \* history: button state before each of the latest
                         \* consecutive toggles (at most two)
    last                 \* history: what the latest handler did

vars == <<is_cam_enabled, is_template_loaded, template_path, timerActive,
          toggle_text, template_label, live_image_label, dialogOpen, alive,
          lastToggle, trail, last>>

\* The observation record of a handler that has done nothing yet.
NoObs ==
    [ op |-> "init", raised |-> FALSE, printed |-> <<>>,
      camBefore |-> FALSE, pathBefore |-> NoAttr, previewBefore |-> Layout,
      liveBefore |-> Layout, toggleBefore |-> "none", loadedBefore |-> FALSE,
      confirmed |-> FALSE, selected |-> NoAttr,
      readOk |-> FALSE, pathRead |-> NoAttr, detectRan |-> FALSE,
      matchRan |-> FALSE, filtered |-> FALSE, matches |-> <<>>, poi |-> <<>>,
      homographyCalled |-> FALSE, homographyOk |-> FALSE,
      transformCalled |-> FALSE, drawMatchesCalled |-> FALSE,
      displayed |-> FALSE, shown |-> Layout ]

\* The observation record of a handler entered in the current state.
Enter(op) ==
    [ NoObs EXCEPT !.op = op, !.camBefore = is_cam_enabled,
                   !.pathBefore = template_path,
                   !.previewBefore = template_label,
                   !.liveBefore = live_image_label,
                   !.toggleBefore = lastToggle,
                   !.loadedBefore = is_template_loaded ]

\* The button state a toggle starts from.
Snapshot ==
    [ cam |-> is_cam_enabled, timer |-> timerActive, text |-> toggle_text,
      toggled |-> lastToggle ]

\* -------------------------------------------------------------- __init__

\* Lines 29-53: the fields and widgets after construction.
Constructed ==
    /\ is_cam_enabled = FALSE
    /\ is_template_loaded = FALSE
    /\ template_path = NoAttr
    /\ timerActive = FALSE
    /\ toggle_text \in LayoutTexts
    /\ template_label = Layout
    /\ live_image_label = Layout
    /\ dialogOpen = FALSE
    /\ alive = TRUE
    /\ lastToggle = "none"
    /\ trail = <<>>

Init ==
    /\ Constructed
    /\ last = NoObs

\* An exception that leaves a slot: PyQt5 either prints the traceback and
\* returns to the event loop or aborts the process, depending on its version.
AfterSlot(raised) == IF raised THEN BOOLEAN ELSE {TRUE}

\* ------------------------------------------------------ SLOT_query_camera

\* The ratio test with the threshold itself accepted.
RatioTest_Inclusive(m, n) == m.distance * RatioDen <= RatioNum * n.distance

\* m.distance < 0.65*n.distance
RatioTest(m, n) == m.distance * RatioDen < RatioNum * n.distance

\* The loop of lines 99-102, from pair i on, poi being the list so far.
RECURSIVE FilterLoop(_, _, _)
FilterLoop(matches, i, poi) ==
    IF i > Len(matches) THEN poi
    ELSE FilterLoop(matches, i + 1,
                    IF RatioTest(matches[i][1], matches[i][2])
                    THEN Append(poi, matches[i][1]) ELSE poi)

RatioFilter(matches) == FilterLoop(matches, 1, <<>>)

\* The branch taken from 4 matches on.
EnoughMatches_AtLeast(poi) == Len(poi) >= MinMatches

\* len(poi) > 4
EnoughMatches(poi) == Len(poi) > MinMatches

\* Lines 106-129: the branch on the filtered list.  obs is the observation
\* so far, homographyOk whether findHomography returns a matrix and a mask
\* (otherwise it returns None, None and mask.ravel() raises).
Render(obs, poi, homographyOk) ==
    IF EnoughMatches(poi)
    THEN IF homographyOk
         THEN [ obs EXCEPT !.homographyCalled = TRUE, !.homographyOk = TRUE,
                           !.transformCalled = TRUE, !.displayed = TRUE,
                           !.shown = "homography" ]
         ELSE [ obs EXCEPT !.homographyCalled = TRUE, !.raised = TRUE ]
    ELSE [ obs EXCEPT !.drawMatchesCalled = TRUE, !.displayed = TRUE,
                      !.shown = "matches" ]

\* Lines 95-129, once both detectAndCompute calls have returned.
MatchAndRender(obs, matches, homographyOk) ==
    LET poi == RatioFilter(matches)
    IN  Render([ obs EXCEPT !.matchRan = TRUE, !.filtered = TRUE,
                            !.matches = matches, !.poi = poi ],
               poi, homographyOk)

\* Lines 80-129 on the observation obs of a tick just entered.  readOk:
\* read() returned a frame (otherwise frame is None and cvtColor raises on
\* line 81); path: self.template_path (reading an attribute never assigned
\* raises on line 82; imread returns None for a file that is no image and
\* detectAndCompute(None) raises on line 86); matcherOk: knnMatch returned
\* its pairs (it raises on line 95 when the frame has no descriptors).
QueryCamera(obs, readOk, path, matcherOk, matches, homographyOk) ==
    IF ~readOk THEN [ obs EXCEPT !.raised = TRUE ]
    ELSE IF path = NoAttr THEN [ obs EXCEPT !.readOk = TRUE, !.raised = TRUE ]
    ELSE IF ~Decodable(path)
         THEN [ obs EXCEPT !.readOk = TRUE, !.pathRead = path,
                           !.detectRan = TRUE, !.raised = TRUE ]
    ELSE IF ~matcherOk
         THEN [ obs EXCEPT !.readOk = TRUE, !.pathRead = path,
                           !.detectRan = TRUE, !.matchRan = TRUE,
                           !.raised = TRUE ]
    ELSE MatchAndRender([ obs EXCEPT !.readOk = TRUE, !.pathRead = path,
                                     !.detectRan = TRUE ],
                        matches, homographyOk)

\* What live_image_label shows after a tick with observation obs.
Shown(obs) == IF obs.displayed THEN obs.shown ELSE live_image_label

SLOT_query_camera ==
    /\ alive
    /\ timerActive
    /\ \E readOk \in BOOLEAN, matcherOk \in BOOLEAN :
       \E matches \in IF readOk /\ matcherOk THEN MatchLists(FramePairs)
                                                 ELSE {<<>>} :
       \E homographyOk \in BOOLEAN :
          LET obs == QueryCamera(Enter("tick"), readOk, template_path,
                                 matcherOk, matches, homographyOk)
          IN  /\ last' = obs
              /\ live_image_label' = Shown(obs)
              /\ alive' \in AfterSlot(obs.raised)
    /\ trail' = <<>>
    /\ UNCHANGED <<is_cam_enabled, is_template_loaded, template_path,
                   timerActive, toggle_text, template_label, dialogOpen,
                   lastToggle>>

\* ----------------------------------------------------- SLOT_browse_button

\* Lines 138-142: the dialog opens and dlg.exec_() runs its own event loop.
\* The dialog is modal, so the two buttons take no clicks until it closes,
\* but the timer keeps firing.
BrowseOpen ==
    /\ alive
    /\ ~dialogOpen
    /\ dialogOpen' = TRUE
    /\ last' = Enter("browse_open")
    /\ trail' = <<>>
    /\ UNCHANGED <<is_cam_enabled, is_template_loaded, template_path,
                   timerActive, toggle_text, template_label,
                   live_image_label, alive, lastToggle>>

\* Lines 142-143: the path after the dialog has closed.
PathAfter(confirmed, file) == IF confirmed THEN file ELSE template_path

\* Lines 142-148 once dlg.exec_() has returned: confirmed with the file
\* chosen, or cancelled.  Reading self.template_path on line 146 raises
\* when it was never assigned.
BrowseClose(confirmed, file) ==
    LET path == PathAfter(confirmed, file)
        obs == [ Enter("browse") EXCEPT !.confirmed = confirmed,
                     !.selected = IF confirmed THEN file ELSE NoAttr ]
    IN  /\ alive
        /\ dialogOpen
        /\ dialogOpen' = FALSE
        /\ template_path' = path
        /\ IF path = NoAttr
           THEN /\ template_label' = template_label
                /\ last' = [ obs EXCEPT !.raised = TRUE ]
                /\ alive' \in AfterSlot(TRUE)
           ELSE /\ template_label' = path
                /\ last' = [ obs EXCEPT !.printed = <<LoadedPrefix \o path>> ]
                /\ alive' = TRUE
        /\ trail' = <<>>
        /\ UNCHANGED <<is_cam_enabled, is_template_loaded, timerActive,
                       toggle_text, live_image_label, lastToggle>>

SLOT_browse_button ==
    \/ BrowseOpen
    \/ \E file \in Files : BrowseClose(TRUE, file)
    \/ BrowseClose(FALSE, NoAttr)

\* ----------------------------------------------------- SLOT_toggle_camera

\* The toggle with self._is_cam_enabled = False left out of the first branch.
ToggleResult_KeepFlag(enabled) ==
    IF enabled
    THEN [ timer |-> FALSE, cam |-> TRUE, text |-> EnableText,
           branch |-> "disable" ]
    ELSE [ timer |-> TRUE, cam |-> TRUE, text |-> DisableText,
           branch |-> "enable" ]

\* The toggle with self._timer.start() left out of the second branch.
ToggleResult_NoStart(enabled) ==
    IF enabled
    THEN [ timer |-> FALSE, cam |-> FALSE, text |-> EnableText,
           branch |-> "disable" ]
    ELSE [ timer |-> FALSE, cam |-> TRUE, text |-> DisableText,
           branch |-> "enable" ]

\* The toggle with self._timer.stop() left out of the first branch.
ToggleResult_NoStop(enabled) ==
    IF enabled
    THEN [ timer |-> TRUE, cam |-> FALSE, text |-> EnableText,
           branch |-> "disable" ]
    ELSE [ timer |-> TRUE, cam |-> TRUE, text |-> DisableText,
           branch |-> "enable" ]

\* Lines 154-161: the timer, the flag and the button text after the toggle.
ToggleResult(enabled) ==
    IF enabled
    THEN [ timer |-> FALSE, cam |-> FALSE, text |-> EnableText,
           branch |-> "disable" ]
    ELSE [ timer |-> TRUE, cam |-> TRUE, text |-> DisableText,
           branch |-> "enable" ]

SLOT_toggle_camera ==
    LET r == ToggleResult(is_cam_enabled)
    IN  /\ alive
        /\ ~dialogOpen
        /\ timerActive' = r.timer
        /\ is_cam_enabled' = r.cam
        /\ toggle_text' = r.text
        /\ lastToggle' = r.branch
        /\ trail' = IF trail = <<>> THEN <<Snapshot>>
                    ELSE <<trail[Len(trail)], Snapshot>>
        /\ last' = Enter("toggle")
        /\ UNCHANGED <<is_template_loaded, template_path, template_label,
                       live_image_label, dialogOpen, alive>>

\* ----------------------------------------------------------- event loop

Next ==
    \/ SLOT_query_camera
    \/ SLOT_browse_button
    \/ SLOT_toggle_camera

Spec == Init /\ [][Next]_vars

\* ------------------------------------------ the ratio filter on its own

\* Lines 95-102 applied to every list knnMatch can return: the list waits
\* in last.matches and ApplyFilter runs the loop on it.
FilterInit ==
    /\ Constructed
    /\ \E matches \in MatchLists(DistPairs) :
           last = [ NoObs EXCEPT !.matches = matches ]

ApplyFilter ==
    /\ last.op = "init"
    /\ last' = [ last EXCEPT !.op = "filter", !.matchRan = TRUE,
                             !.filtered = TRUE,
                             !.poi = RatioFilter(last.matches) ]
    /\ UNCHANGED <<is_cam_enabled, is_template_loaded, template_path,
                   timerActive, toggle_text, template_label,
                   live_image_label, dialogOpen, alive, lastToggle, trail>>

FilterSpec == FilterInit /\ [][ApplyFilter]_vars

\* ------------------------------------------------------------- properties

\* C1: a tick whose filtered list holds 4 correspondences or fewer (0
\* included) calls drawMatches and shows the result in live_image_label,
\* and calls neither findHomography nor perspectiveTransform.
C1_FewMatchesAreVisualised ==
    (last.op = "tick" /\ last.filtered /\ Len(last.poi) <= 4) =>
        /\ last.drawMatchesCalled
        /\ last.displayed
        /\ live_image_label = "matches"
        /\ ~last.homographyCalled
        /\ ~last.transformCalled
        /\ ~last.raised

C1_Witness ==
    /\ last.op = "tick"
    /\ last.filtered
    /\ Len(last.poi) = 4
    /\ last.drawMatchesCalled
    /\ live_image_label = "matches"

\* C2: a tick whose filtered list holds more than 4 correspondences calls
\* findHomography, and when findHomography hands back no matrix and no mask
\* the tick raises nothing and leaves live_image_label as it was.
C2_FailedHomographyEndsQuietly ==
    (last.op = "tick" /\ last.filtered /\ Len(last.poi) > 4) =>
        /\ last.homographyCalled
        /\ ~last.homographyOk =>
               /\ ~last.raised
               /\ ~last.displayed
               /\ live_image_label = last.liveBefore

\* C3: a tick whose camera read fails raises nothing, runs neither feature
\* detection nor matching, and leaves live_image_label as it was.
C3_FailedReadSkipsTick ==
    (last.op = "tick" /\ ~last.readOk) =>
        /\ ~last.raised
        /\ ~last.detectRan
        /\ ~last.matchRan
        /\ ~last.displayed
        /\ live_image_label = last.liveBefore

\* C4: a tick runs feature detection or matching only if
\* _is_template_loaded was true when it started.
C4_MatchingOnlyWhenLoaded ==
    (last.op = "tick" /\ (last.detectRan \/ last.matchRan)) =>
        last.loadedBefore

\* C5 (as stated): two consecutive toggles, from any state, the state after
\* construction included, restore the camera flag, the timer and the
\* button text.
C5_DoubleToggleRestoresAll ==
    Len(trail) = 2 =>
        /\ is_cam_enabled = trail[1].cam
        /\ timerActive = trail[1].timer
        /\ toggle_text = trail[1].text

\* C5 (amended): two consecutive toggles restore the camera flag and the
\* timer from any state; they restore the button text when a toggle has
\* run before them or the layout's text is the one the disabling branch
\* writes.
C5_DoubleToggleRestoresAfterFirst ==
    Len(trail) = 2 =>
        /\ is_cam_enabled = trail[1].cam
        /\ timerActive = trail[1].timer
        /\ (trail[1].toggled # "none" \/ trail[1].text = EnableText) =>
               toggle_text = trail[1].text

C5_Witness ==
    /\ Len(trail) = 2
    /\ trail[1].toggled = "enable"
    /\ trail[1].cam
    /\ is_cam_enabled
    /\ toggle_text = DisableText

\* C6: the timer runs exactly when the camera flag is set; a tick or a
\* Browse leaves the flag alone; a toggle flips it and leaves the button
\* reading "&Disable camera" when enabled and "&Enable camera" when not.
C6_TimerFollowsFlag ==
    /\ timerActive <=> is_cam_enabled
    /\ last.op \in {"tick", "browse_open", "browse"} =>
           is_cam_enabled = last.camBefore
    /\ last.op = "toggle" =>
           /\ is_cam_enabled # last.camBefore
           /\ toggle_text = IF is_cam_enabled THEN "&Disable camera"
                                              ELSE "&Enable camera"

C6_Witness ==
    /\ last.op = "toggle"
    /\ last.camBefore
    /\ ~timerActive
    /\ toggle_text = "&Enable camera"
    /\ live_image_label # Layout

\* C7: the filtered list holds exactly the best matches whose distance is
\* strictly below 0.65 times the second-best distance, each once and in
\* the order of the matcher's list; a pair exactly on the threshold is
\* left out.
C7_RatioFilterExact ==
    last.filtered =>
        LET ms == last.matches
            poi == last.poi
            Kept(i) == \E j \in 1..Len(poi) : poi[j] = ms[i][1]
        IN  /\ \A i \in 1..Len(ms) :
                   Kept(i) <=>
                       100 * ms[i][1].distance < 65 * ms[i][2].distance
            /\ \A i \in 1..Len(ms) :
                   100 * ms[i][1].distance = 65 * ms[i][2].distance =>
                       ~Kept(i)
            /\ \A j \in 1..Len(poi) :
                   \E i \in 1..Len(ms) : poi[j] = ms[i][1]
            /\ \A j, k \in 1..Len(poi) :
                   j < k => poi[j].queryIdx < poi[k].queryIdx

C7_Witness ==
    /\ last.op = "filter"
    /\ Len(last.matches) >= 4
    /\ Len(last.poi) = 2
    /\ \E i \in 1..Len(last.matches) :
           /\ last.matches[i][1].distance = 13
           /\ last.matches[i][2].distance = 20
    /\ \E i \in 1..Len(last.matches) : last.matches[i][1].distance = 14

\* C8: a Browse prints "Loaded template image file: <path>" once when its
\* dialog was confirmed; a cancelled Browse prints nothing, raises nothing
\* and leaves the template path and the preview as they were.
C8_PrintsOnlyOnLoad ==
    last.op = "browse" =>
        /\ last.confirmed =>
               /\ last.printed = <<"Loaded template image file: "
                                      \o last.selected>>
               /\ ~last.raised
        /\ ~last.confirmed =>
               /\ last.printed = <<>>
               /\ ~last.raised
               /\ template_path = last.pathBefore
               /\ template_label = last.previewBefore

\* C9: after a confirmed Browse the template path is the selected file and
\* _is_template_loaded is true; a tick reads its template from the current
\* path; before the first confirmed Browse _is_template_loaded is false.
C9_BrowseSetsTemplateState ==
    /\ (last.op = "browse" /\ last.confirmed) =>
           /\ template_path = last.selected
           /\ is_template_loaded
    /\ (last.op = "tick" /\ last.detectRan) =>
           last.pathRead = template_path
    /\ template_path = NoAttr => ~is_template_loaded

====
